---------------------------- MODULE Spec2Model ----------------------------
(***************************************************************************)
(* Foodgram backend: the recipe aggregate (create / update / destroy with  *)
(* its tag and ingredient associations), the favourite and subscription    *)
(* validators and the subscription listing, as state machines over the     *)
(* database tables.  Every database statement of a handler is one step:    *)
(* the code opens no transaction, so each statement commits on its own    *)
(* and a reader may look at the tables between any two of them.            *)
(***************************************************************************)
EXTENDS Integers, Sequences, FiniteSets, TLC

(* ------------------------------ bounds -------------------------------- *)

\* Recipe ids the auto-increment key may hand out.
MaxRecipes == 1
\* Longest tag list / ingredient list of a recipe payload.
MaxLen == 2
\* Subscription requests that may be in flight at once.
NumWorkers == 2
\* Longest ingredient list handed to validate_ingredients on its own.
MaxValueLen == 3
\* Longest recipes_limit query string, and most recipes a followed user owns.
MaxParamLen == 2
MaxOwned == 3

(* ----------------------------- universes ------------------------------ *)

\* users/models.py User; "root" has is_active and is_staff set.
Users == {"ann", "bob", "root"}
Staff == {"root"}
Anonymous == "anonymous"
Requesters == Users \cup {Anonymous}

\* Rows of the Tag table (read-only through the API).
Tags == {1, 2}
\* A tag id as it arrives in the JSON payload: an integer (3 names no Tag)
\* or a value int() cannot convert.
JInt(n) == [type |-> "int", v |-> n]
JStr == [type |-> "str", v |-> 0]
TagValues == {JInt(n) : n \in {1, 2, 3}} \cup {JStr}

\* Rows of the Ingredient table, and the amounts a payload may carry.
Ingredients == {1, 2}
Amounts == {1, 2}
RecipeNames == {"soup", "cake"}

SeqsUpTo(S, n) == UNION {[1..k -> S] : k \in 0..n}
TagLists == SeqsUpTo(TagValues, MaxLen)
IngredientEntries == [ingredient : Ingredients, amount : Amounts]
IngredientLists == SeqsUpTo(IngredientEntries, MaxLen)

VARIABLES
    recipes,        \* Recipe table: id -> [author, name]
    tagRows,        \* Recipe.tags through table: set of <<recipe, tag>>
    ingredRows,     \* IngredientRecipe table, in insertion order
    nextId,         \* next auto-increment Recipe id
    req,            \* the recipe request being handled, or its response
    subscriptions,  \* Subscriptions table: <<user, follower>> -> number of rows
    subReq,         \* per worker: the subscription request it is handling
    favourites,     \* FavouriteRecipes table: <<user, recipe>> -> number of rows
    favResp,        \* the last favourite request and its answer
    valueArg,       \* argument of a validate_ingredients call
    validated,      \* its outcome
    listReq,        \* a subscription listing request: recipes_limit, owner's recipes
    listResp        \* its answer

recipeVars == <<recipes, tagRows, ingredRows, nextId, req>>
subVars == <<subscriptions, subReq>>
favVars == <<favourites, favResp>>
valVars == <<valueArg, validated>>
listVars == <<listReq, listResp>>
vars == <<recipeVars, subVars, favVars, valVars, listVars>>
notRecipeVars == <<subVars, favVars, valVars, listVars>>
notSubVars == <<recipeVars, favVars, valVars, listVars>>
notFavVars == <<recipeVars, subVars, valVars, listVars>>
notValVars == <<recipeVars, subVars, favVars, listVars>>
notListVars == <<recipeVars, subVars, favVars, valVars>>

(* ----------------------------- ORM helpers ---------------------------- *)

Range(s) == {s[i] : i \in DOMAIN s}

TagsOf(rows, id) == {row[2] : row \in {x \in rows : x[1] = id}}
IngredientsOf(rows, id) == SelectSeq(rows, LAMBDA x : x.recipe = id)

\* The tables as a reader sees them.
Snapshot == [recipes |-> recipes, tagRows |-> tagRows, ingredRows |-> ingredRows]

\* recipe.tags.add(*tags): every value goes through int(), then the rows are
\* inserted in one statement; a foreign key naming no Tag fails the statement.
M2MAdd(rows, id, tags) ==
    IF \E i \in DOMAIN tags : tags[i].type # "int"
    THEN [err |-> "ValueError", rows |-> rows]
    ELSE IF \E i \in DOMAIN tags : tags[i].v \notin Tags
    THEN [err |-> "IntegrityError", rows |-> rows]
    ELSE [err |-> "none",
          rows |-> rows \cup {<<id, tags[i].v>> : i \in DOMAIN tags}]

\* instance.tags.clear()
M2MClear(rows, id) == {x \in rows : x[1] # id}

\* instance.ingredients.clear(): deletes the recipe's IngredientRecipe rows.
ThroughClear(rows, id) == SelectSeq(rows, LAMBDA x : x.recipe # id)

\* validate_ingredients: the scan over the payload, `unique` being the set of
\* ids not yet met and `err` the names collected so far.
RECURSIVE ScanDuplicates(_, _, _, _, _)
ScanDuplicates(value, names, i, unique, err) ==
    IF i > Len(value) THEN err
    ELSE LET ing == value[i].ingredient IN
         IF ing \in unique
         THEN ScanDuplicates(value, names, i + 1, unique \ {ing}, err)
         ELSE ScanDuplicates(value, names, i + 1, unique, Append(err, names[ing]))

ValidateIngredients_ListsAll(value, names) ==
    LET ids == [i \in DOMAIN value |-> value[i].ingredient]
    IN  IF Len(ids) # Cardinality(Range(ids))
        THEN [ok |-> FALSE,
              err |-> [i \in DOMAIN value |-> names[value[i].ingredient]],
              value |-> <<>>]
        ELSE [ok |-> TRUE, err |-> <<>>, value |-> value]

ValidateIngredients(value, names) ==
    LET ids == [i \in DOMAIN value |-> value[i].ingredient]
        unique_ingredients == Range(ids)
    IN  IF Len(ids) # Cardinality(unique_ingredients)
        THEN [ok |-> FALSE,
              err |-> ScanDuplicates(value, names, 1, unique_ingredients, <<>>),
              value |-> <<>>]
        ELSE [ok |-> TRUE, err |-> <<>>, value |-> value]

\* Ingredient.name of the catalogue rows the recipe requests use.
IngredientName == [i \in Ingredients |-> IF i = 1 THEN "salt" ELSE "sugar"]

\* IsResponsibleUserOrReadOnly, for the unsafe methods.
HasPermission(user) == user # Anonymous
IsPrivileged(user) == user \in Staff
HasObjectPermission(user, recipe) == recipe.author = user \/ IsPrivileged(user)

(* ------------------------- the request record ------------------------- *)

NoSnapshot == [recipes |-> <<>>, tagRows |-> {}, ingredRows |-> <<>>]

Idle == [op |-> "none", pc |-> "idle", user |-> Anonymous, id |-> 0,
         tags |-> <<>>, ingredients |-> <<>>, name |-> "", i |-> 0,
         status |-> "none", before |-> NoSnapshot]

\* A request answered before it wrote anything.
Refused(op, user, id, status) ==
    [Idle EXCEPT !.op = op, !.pc = "done", !.user = user, !.id = id,
                 !.status = status, !.before = Snapshot]

Started(op, pc, user, id, tags, ingredients, name) ==
    [op |-> op, pc |-> pc, user |-> user, id |-> id, tags |-> tags,
     ingredients |-> ingredients, name |-> name, i |-> 1,
     status |-> "none", before |-> Snapshot]

TagError(err) == IF err = "IntegrityError" THEN "NotFound" ELSE "ValidationError"

(* ------------------------ RecipeSerializer.create --------------------- *)

\* POST /recipes/: permission, is_valid(), then Recipe.objects.create().
CreateStart(user, tags, ingredients, name) ==
    /\ req.pc = "idle"
    /\ nextId <= MaxRecipes
    /\ IF ~HasPermission(user)
       THEN /\ req' = Refused("create", user, 0, "NotAuthenticated")
            /\ UNCHANGED <<recipes, tagRows, ingredRows, nextId>>
       ELSE IF ~ValidateIngredients(ingredients, IngredientName).ok
       THEN /\ req' = Refused("create", user, 0, "ValidationError")
            /\ UNCHANGED <<recipes, tagRows, ingredRows, nextId>>
       ELSE /\ req' = Started("create", "created", user, nextId, tags, ingredients, name)
            /\ recipes' = recipes @@ (nextId :> [author |-> user, name |-> name])
            /\ nextId' = nextId + 1
            /\ UNCHANGED <<tagRows, ingredRows>>
    /\ UNCHANGED notRecipeVars

\* recipe.tags.add(*tags) inside the try.
CreateAddTags ==
    /\ req.op = "create" /\ req.pc = "created"
    /\ LET r == M2MAdd(tagRows, req.id, req.tags) IN
       IF r.err = "none"
       THEN /\ tagRows' = r.rows
            /\ req' = [req EXCEPT !.pc = "tags_added"]
       ELSE /\ tagRows' = tagRows
            /\ req' = [req EXCEPT !.pc = "except", !.status = TagError(r.err)]
    /\ UNCHANGED <<recipes, ingredRows, nextId>>
    /\ UNCHANGED notRecipeVars

CreateRollback_NoDelete ==
    /\ req.op = "create" /\ req.pc = "except"
    /\ req' = [req EXCEPT !.pc = "done"]
    /\ UNCHANGED <<recipes, tagRows, ingredRows, nextId>>
    /\ UNCHANGED notRecipeVars

\* The except branches: recipe.delete(), then raise.
CreateRollback ==
    /\ req.op = "create" /\ req.pc = "except"
    /\ recipes' = [r \in DOMAIN recipes \ {req.id} |-> recipes[r]]
    /\ tagRows' = M2MClear(tagRows, req.id)
    /\ ingredRows' = ThroughClear(ingredRows, req.id)
    /\ req' = [req EXCEPT !.pc = "done"]
    /\ UNCHANGED nextId
    /\ UNCHANGED notRecipeVars

\* One pass of the loop: recipe.ingred_recipes.create(...).
CreateIngredient ==
    /\ req.op = "create" /\ req.pc = "tags_added"
    /\ req.i <= Len(req.ingredients)
    /\ ingredRows' = Append(ingredRows,
            [recipe |-> req.id,
             ingredient |-> req.ingredients[req.i].ingredient,
             amount |-> req.ingredients[req.i].amount])
    /\ req' = [req EXCEPT !.i = @ + 1]
    /\ UNCHANGED <<recipes, tagRows, nextId>>
    /\ UNCHANGED notRecipeVars

\* return recipe
CreateReturn ==
    /\ req.op = "create" /\ req.pc = "tags_added"
    /\ req.i > Len(req.ingredients)
    /\ req' = [req EXCEPT !.pc = "done", !.status = "ok"]
    /\ UNCHANGED <<recipes, tagRows, ingredRows, nextId>>
    /\ UNCHANGED notRecipeVars

(* ------------------------ RecipeSerializer.update --------------------- *)

\* PATCH /recipes/<id>/: permission, get_object(), is_valid(), then the
\* first statement of update(): instance.tags.clear().
UpdateStart(user, id, tags, ingredients, name) ==
    /\ req.pc = "idle"
    /\ IF ~HasPermission(user)
       THEN /\ req' = Refused("update", user, id, "NotAuthenticated")
            /\ UNCHANGED tagRows
       ELSE IF id \notin DOMAIN recipes
       THEN /\ req' = Refused("update", user, id, "NotFound")
            /\ UNCHANGED tagRows
       ELSE IF ~HasObjectPermission(user, recipes[id])
       THEN /\ req' = Refused("update", user, id, "PermissionDenied")
            /\ UNCHANGED tagRows
       ELSE IF ~ValidateIngredients(ingredients, IngredientName).ok
       THEN /\ req' = Refused("update", user, id, "ValidationError")
            /\ UNCHANGED tagRows
       ELSE /\ req' = Started("update", "tags_cleared", user, id, tags, ingredients, name)
            /\ tagRows' = M2MClear(tagRows, id)
    /\ UNCHANGED <<recipes, ingredRows, nextId>>
    /\ UNCHANGED notRecipeVars

\* instance.tags.add(*tags) inside the try; the except branches only raise.
UpdateAddTags ==
    /\ req.op = "update" /\ req.pc = "tags_cleared"
    /\ LET r == M2MAdd(tagRows, req.id, req.tags) IN
       IF r.err = "none"
       THEN /\ tagRows' = r.rows
            /\ req' = [req EXCEPT !.pc = "tags_added"]
       ELSE /\ tagRows' = tagRows
            /\ req' = [req EXCEPT !.pc = "done", !.status = TagError(r.err)]
    /\ UNCHANGED <<recipes, ingredRows, nextId>>
    /\ UNCHANGED notRecipeVars

UpdateClearIngredients_Skip ==
    /\ req.op = "update" /\ req.pc = "tags_added"
    /\ req' = [req EXCEPT !.pc = "ingredients_cleared"]
    /\ UNCHANGED <<recipes, tagRows, ingredRows, nextId>>
    /\ UNCHANGED notRecipeVars

\* instance.ingredients.clear()
UpdateClearIngredients ==
    /\ req.op = "update" /\ req.pc = "tags_added"
    /\ ingredRows' = ThroughClear(ingredRows, req.id)
    /\ req' = [req EXCEPT !.pc = "ingredients_cleared"]
    /\ UNCHANGED <<recipes, tagRows, nextId>>
    /\ UNCHANGED notRecipeVars

\* One pass of the loop: instance.ingred_recipes.create(...).
UpdateIngredient ==
    /\ req.op = "update" /\ req.pc = "ingredients_cleared"
    /\ req.i <= Len(req.ingredients)
    /\ ingredRows' = Append(ingredRows,
            [recipe |-> req.id,
             ingredient |-> req.ingredients[req.i].ingredient,
             amount |-> req.ingredients[req.i].amount])
    /\ req' = [req EXCEPT !.i = @ + 1]
    /\ UNCHANGED <<recipes, tagRows, nextId>>
    /\ UNCHANGED notRecipeVars

\* return super().update(instance, validated_data): the scalar fields.
UpdateSave ==
    /\ req.op = "update" /\ req.pc = "ingredients_cleared"
    /\ req.i > Len(req.ingredients)
    /\ recipes' = [recipes EXCEPT ![req.id].name = req.name]
    /\ req' = [req EXCEPT !.pc = "done", !.status = "ok"]
    /\ UNCHANGED <<tagRows, ingredRows, nextId>>
    /\ UNCHANGED notRecipeVars

(* ------------------------ RecipeViewSet.destroy ----------------------- *)

\* DELETE /recipes/<id>/: permission, get_object_or_404, recipe.tags.clear().
DestroyStart(user, id) ==
    /\ req.pc = "idle"
    /\ IF ~HasPermission(user)
       THEN /\ req' = Refused("destroy", user, id, "NotAuthenticated")
            /\ UNCHANGED tagRows
       ELSE IF id \notin DOMAIN recipes
       THEN /\ req' = Refused("destroy", user, id, "NotFound")
            /\ UNCHANGED tagRows
       ELSE /\ req' = Started("destroy", "tags_cleared", user, id, <<>>, <<>>, "")
            /\ tagRows' = M2MClear(tagRows, id)
    /\ UNCHANGED <<recipes, ingredRows, nextId>>
    /\ UNCHANGED notRecipeVars

\* recipe.ingredients.clear()
DestroyClearIngredients ==
    /\ req.op = "destroy" /\ req.pc = "tags_cleared"
    /\ ingredRows' = ThroughClear(ingredRows, req.id)
    /\ req' = [req EXCEPT !.pc = "ingredients_cleared"]
    /\ UNCHANGED <<recipes, tagRows, nextId>>
    /\ UNCHANGED notRecipeVars

\* super().destroy(): get_object() checks the object permission, then
\* perform_destroy deletes the row.
DestroySuper ==
    /\ req.op = "destroy" /\ req.pc = "ingredients_cleared"
    /\ IF ~HasObjectPermission(req.user, recipes[req.id])
       THEN /\ req' = [req EXCEPT !.pc = "done", !.status = "PermissionDenied"]
            /\ UNCHANGED <<recipes, tagRows, ingredRows>>
       ELSE /\ recipes' = [r \in DOMAIN recipes \ {req.id} |-> recipes[r]]
            /\ tagRows' = M2MClear(tagRows, req.id)
            /\ ingredRows' = ThroughClear(ingredRows, req.id)
            /\ req' = [req EXCEPT !.pc = "done", !.status = "ok"]
    /\ UNCHANGED nextId
    /\ UNCHANGED notRecipeVars

\* The response is sent; the next request may come.
Respond ==
    /\ req.pc = "done"
    /\ req' = Idle
    /\ UNCHANGED <<recipes, tagRows, ingredRows, nextId>>
    /\ UNCHANGED notRecipeVars

(* ---------------------------- subscriptions --------------------------- *)

Workers == 1..NumWorkers
\* The users that follow one another.
Followers == {"ann", "bob"}
SubPairs == Followers \X Followers
Methods == {"POST", "DELETE"}

\* SubscriptionsSerializer.validate: the first check that fails names the error.
SubscriptionsValidate(method, user, follower, table) ==
    LET is_exist == table[<<user, follower>>] > 0 IN
    IF method = "POST" /\ is_exist THEN "already_subscribed"
    ELSE IF method = "DELETE" /\ ~is_exist THEN "not_subscribed"
    ELSE IF user = follower THEN "self_subscription"
    ELSE "none"

UniqueSubscriptions_Off(table, row) == TRUE

\* UniqueConstraint(fields=['user', 'follower'], name='unique_subscriptions')
UniqueSubscriptions(table, row) == table[row] = 0

AuthorCannotSubscribeToHimself_Off(row) == TRUE

\* CheckConstraint(check=~Q(user=F('follower')))
AuthorCannotSubscribeToHimself(row) == row[1] # row[2]

\* INSERT INTO Subscriptions: the database keeps the row only if both
\* constraints hold.
SubscriptionsInsert(table, row) ==
    IF UniqueSubscriptions(table, row) /\ AuthorCannotSubscribeToHimself(row)
    THEN [err |-> "none", table |-> [table EXCEPT ![row] = @ + 1]]
    ELSE [err |-> "IntegrityError", table |-> table]

SubIdle == [pc |-> "idle", method |-> "none", user |-> "", follower |-> "",
            status |-> "none"]

\* A subscribe / unsubscribe request reaches a worker, which runs validate().
SubscribeStart(w, method, user, follower) ==
    /\ subReq[w].pc = "idle"
    /\ LET err == SubscriptionsValidate(method, user, follower, subscriptions) IN
       subReq' = [subReq EXCEPT ![w] =
            [pc |-> IF err = "none" THEN "validated" ELSE "done",
             method |-> method, user |-> user, follower |-> follower,
             status |-> err]]
    /\ UNCHANGED subscriptions
    /\ UNCHANGED notSubVars

\* The validated request is written: serializer.save() or the row's delete().
SubscribeSave(w) ==
    /\ subReq[w].pc = "validated"
    /\ LET row == <<subReq[w].user, subReq[w].follower>> IN
       IF subReq[w].method = "POST"
       THEN LET r == SubscriptionsInsert(subscriptions, row) IN
            /\ subscriptions' = r.table
            /\ subReq' = [subReq EXCEPT ![w].pc = "done",
                                        ![w].status = IF r.err = "none" THEN "created" ELSE r.err]
       ELSE /\ subscriptions' = [subscriptions EXCEPT ![row] = 0]
            /\ subReq' = [subReq EXCEPT ![w].pc = "done", ![w].status = "deleted"]
    /\ UNCHANGED notSubVars

SubscribeRespond(w) ==
    /\ subReq[w].pc = "done"
    /\ subReq' = [subReq EXCEPT ![w] = SubIdle]
    /\ UNCHANGED subscriptions
    /\ UNCHANGED notSubVars

\* Subscriptions.objects.create(...) by a caller that does not go through the
\* serializer: only the table's constraints stand in its way.
SubscriptionsCreate(user, follower) ==
    /\ subscriptions' = SubscriptionsInsert(subscriptions, <<user, follower>>).table
    /\ subscriptions' # subscriptions
    /\ UNCHANGED subReq
    /\ UNCHANGED notSubVars

SubInit ==
    /\ subscriptions = [p \in SubPairs |-> 0]
    /\ subReq = [w \in Workers |-> SubIdle]

(* ----------------------------- favourites ----------------------------- *)

FavRecipes == {1, 2}
FavPairs == Users \X FavRecipes

FavouriteValidate_NoPostCheck(method, is_exist) ==
    IF method = "DELETE" /\ ~is_exist THEN "ValidationError" ELSE "none"

\* FavouriteSerializer.validate
FavouriteValidate(method, is_exist) ==
    IF method = "POST" /\ is_exist THEN "ValidationError"
    ELSE IF method = "DELETE" /\ ~is_exist THEN "ValidationError"
    ELSE "none"

NoFavResp == [method |-> "none", user |-> "", recipe |-> 0, status |-> "none"]

\* A favourite add (POST) or remove (DELETE), handled in one piece: validate(),
\* then the row is created or deleted.
FavouriteRequest(method, user, recipe) ==
    LET pair == <<user, recipe>>
        err == FavouriteValidate(method, favourites[pair] > 0)
    IN  /\ favResp' = [method |-> method, user |-> user, recipe |-> recipe,
                       status |-> IF err = "none" THEN "ok" ELSE err]
        /\ favourites' =
              IF err # "none" THEN favourites
              ELSE IF method = "POST" THEN [favourites EXCEPT ![pair] = @ + 1]
              ELSE [favourites EXCEPT ![pair] = 0]
        /\ UNCHANGED notFavVars

FavInit ==
    /\ favourites = [p \in FavPairs |-> 0]
    /\ favResp = NoFavResp

(* ------------------------ validate_ingredients ------------------------ *)

\* An ingredient catalogue in which two rows share a name.
Catalogue == {1, 2, 3}
CatalogueName == [i \in Catalogue |-> IF i = 2 THEN "sugar" ELSE "salt"]
Values == SeqsUpTo([ingredient : Catalogue, amount : Amounts], MaxValueLen)

NotValidated == [ok |-> FALSE, err |-> <<>>, value |-> <<>>, called |-> FALSE]

ValidateCall ==
    /\ ~validated.called
    /\ validated' = ValidateIngredients(valueArg, CatalogueName) @@ [called |-> TRUE]
    /\ UNCHANGED valueArg
    /\ UNCHANGED notValVars

ValInit ==
    /\ valueArg \in Values
    /\ validated = NotValidated

(* ------------------ UserSubscriptionsSerializer.get_recipes ----------- *)

Digits == {"0", "1", "2"}
ParamChars == Digits \cup {"a", "-"}
DigitValue(c) == CASE c = "0" -> 0 [] c = "1" -> 1 [] c = "2" -> 2

RECURSIVE DecimalValue(_)
DecimalValue(text) ==
    IF text = <<>> THEN 0
    ELSE 10 * DecimalValue(SubSeq(text, 1, Len(text) - 1)) + DigitValue(text[Len(text)])

AllDigits(text) == text # <<>> /\ \A i \in DOMAIN text : text[i] \in Digits

\* int(query_params.get('recipes_limit')) under `except Exception`: None for
\* a missing parameter (int(None)) and for text int() rejects.
ParseLimit(param) ==
    IF ~param.present THEN [none |-> TRUE, n |-> 0]
    ELSE IF AllDigits(param.text) THEN [none |-> FALSE, n |-> DecimalValue(param.text)]
    ELSE IF param.text # <<>> /\ param.text[1] = "-" /\ AllDigits(Tail(param.text))
    THEN [none |-> FALSE, n |-> 0 - DecimalValue(Tail(param.text))]
    ELSE [none |-> TRUE, n |-> 0]

\* `if limit:` is false for None and for 0.
LimitApplies(limit) == ~limit.none /\ limit.n # 0

\* get_recipes and get_recipes_count for a followed user owning `owned`.
GetRecipes(param, owned) ==
    LET limit == ParseLimit(param) IN
    IF LimitApplies(limit)
    THEN IF limit.n < 0
         THEN [status |-> "ServerError", recipes |-> <<>>, recipes_count |-> Len(owned)]
         ELSE [status |-> "ok",
               recipes |-> SubSeq(owned, 1, IF limit.n < Len(owned) THEN limit.n ELSE Len(owned)),
               recipes_count |-> Len(owned)]
    ELSE [status |-> "ok", recipes |-> owned, recipes_count |-> Len(owned)]

Params == {[present |-> FALSE, text |-> <<>>]}
            \cup {[present |-> TRUE, text |-> t] : t \in SeqsUpTo(ParamChars, MaxParamLen)}
NoListResp == [status |-> "none", recipes |-> <<>>, recipes_count |-> 0]

ListSubscriptions ==
    /\ listResp.status = "none"
    /\ listResp' = GetRecipes(listReq.param, listReq.owned)
    /\ UNCHANGED listReq
    /\ UNCHANGED notListVars

ListInit ==
    /\ listReq \in [param : Params, owned : {[i \in 1..t |-> i] : t \in 0..MaxOwned}]
    /\ listResp = NoListResp

(* --------------------------- specifications --------------------------- *)

RecipeInit ==
    /\ recipes = <<>>
    /\ tagRows = {}
    /\ ingredRows = <<>>
    /\ nextId = 1
    /\ req = Idle

RecipeRest == RecipeInit
SubRest == subscriptions = [p \in SubPairs |-> 0] /\ subReq = [w \in Workers |-> SubIdle]
FavRest == favourites = [p \in FavPairs |-> 0] /\ favResp = NoFavResp
ValRest == valueArg = <<>> /\ validated = NotValidated
ListRest == listReq = [param |-> [present |-> FALSE, text |-> <<>>], owned |-> <<>>]
                /\ listResp = NoListResp

\* The recipe aggregate. A new request is taken up only when none is being
\* handled; a reader may look at the tables in every state.
Init == RecipeInit /\ SubRest /\ FavRest /\ ValRest /\ ListRest

Next ==
    \/ /\ req.pc = "idle"
       /\ \E u \in Requesters, t \in TagLists, g \in IngredientLists, n \in RecipeNames :
             CreateStart(u, t, g, n)
    \/ CreateAddTags
    \/ CreateRollback
    \/ CreateIngredient
    \/ CreateReturn
    \/ /\ req.pc = "idle"
       /\ \E u \in Requesters, id \in 1..MaxRecipes, t \in TagLists,
             g \in IngredientLists, n \in RecipeNames :
             UpdateStart(u, id, t, g, n)
    \/ UpdateAddTags
    \/ UpdateClearIngredients
    \/ UpdateIngredient
    \/ UpdateSave
    \/ /\ req.pc = "idle"
       /\ \E u \in Requesters, id \in 1..MaxRecipes : DestroyStart(u, id)
    \/ DestroyClearIngredients
    \/ DestroySuper
    \/ Respond

Spec == Init /\ [][Next]_vars

\* Subscriptions, with concurrent workers.
InitSubscriptions == SubInit /\ RecipeRest /\ FavRest /\ ValRest /\ ListRest

NextSubscriptions ==
    \/ \E w \in Workers :
          /\ subReq[w].pc = "idle"
          /\ \E m \in Methods, u \in Followers, f \in Followers : SubscribeStart(w, m, u, f)
    \/ \E w \in Workers : SubscribeSave(w)
    \/ \E w \in Workers : SubscribeRespond(w)
    \/ \E u \in Followers, f \in Followers : SubscriptionsCreate(u, f)

SpecSubscriptions == InitSubscriptions /\ [][NextSubscriptions]_vars

\* Favourites, one request after another.
InitFavourites == FavInit /\ RecipeRest /\ SubRest /\ ValRest /\ ListRest

NextFavourites ==
    \E m \in Methods, u \in Users, r \in FavRecipes : FavouriteRequest(m, u, r)

SpecFavourites == InitFavourites /\ [][NextFavourites]_vars

\* validate_ingredients on every list within the bounds.
InitValidate == ValInit /\ RecipeRest /\ SubRest /\ FavRest /\ ListRest

NextValidate == ValidateCall

SpecValidate == InitValidate /\ [][NextValidate]_vars

\* The subscription listing on every query string within the bounds.
InitListing == ListInit /\ RecipeRest /\ SubRest /\ FavRest /\ ValRest

NextListing == ListSubscriptions

SpecListing == InitListing /\ [][NextListing]_vars

(* ------------------------------- claims -------------------------------- *)

\* What a reader finds stored for one recipe.
Stored(db, id) ==
    [row |-> IF id \in DOMAIN db.recipes THEN <<db.recipes[id]>> ELSE <<>>,
     tags |-> TagsOf(db.tagRows, id),
     ingredients |-> IngredientsOf(db.ingredRows, id)]

HasMissingTag(tags) == \E i \in DOMAIN tags : tags[i].type = "int" /\ tags[i].v \notin Tags
HasNonIntTag(tags) == \E i \in DOMAIN tags : tags[i].type # "int"
CreateEnded == req.op = "create" /\ req.pc = "done"
UpdateEnded == req.op = "update" /\ req.pc = "done"
DestroyEnded == req.op = "destroy" /\ req.pc = "done"

C2_FailedUpdateWritesNothing ==
    (UpdateEnded /\ (HasMissingTag(req.tags) \/ HasNonIntTag(req.tags))) =>
        /\ req.status \in {"NotFound", "ValidationError"}
        /\ Stored(Snapshot, req.id) = Stored(req.before, req.id)

\* C3: a delete by an authenticated requester who is neither the author nor
\* privileged fails with PermissionDenied and leaves the recipe row, its tag
\* associations and its ingredient rows unchanged.
C3_ForbiddenDeleteWritesNothing ==
    (/\ DestroyEnded
     /\ req.id \in DOMAIN req.before.recipes
     /\ req.user # Anonymous
     /\ req.user # req.before.recipes[req.id].author
     /\ ~IsPrivileged(req.user)) =>
        /\ req.status = "PermissionDenied"
        /\ Stored(Snapshot, req.id) = Stored(req.before, req.id)

\* C4: while an update of a recipe that has a tag and an ingredient runs with a
\* payload whose tags and ingredients are not empty, a reader never finds the
\* recipe with no tag or with no ingredient.
C4_ReaderNeverSeesEmpty ==
    (/\ req.op = "update"
     /\ req.pc \in {"tags_cleared", "tags_added", "ingredients_cleared"}
     /\ Stored(req.before, req.id).tags # {}
     /\ Stored(req.before, req.id).ingredients # <<>>
     /\ req.tags # <<>>
     /\ req.ingredients # <<>>) =>
        /\ Stored(Snapshot, req.id).tags # {}
        /\ Stored(Snapshot, req.id).ingredients # <<>>

\* C5: after a successful create or update the recipe's tag set is exactly the
\* payload's tag ids, and it has as many ingredient rows as the payload has
\* entries, exactly one per entry, with the entry's ingredient id and amount;
\* nothing stored before an update survives unless the payload names it.
C5_StoredEqualsPayload ==
    ((CreateEnded \/ UpdateEnded) /\ req.status = "ok") =>
        LET now == Stored(Snapshot, req.id) IN
        /\ now.tags = {req.tags[i].v : i \in DOMAIN req.tags}
        /\ Len(now.ingredients) = Len(req.ingredients)
        /\ \A i \in DOMAIN req.ingredients :
              LET same == {k \in DOMAIN now.ingredients :
                              now.ingredients[k].ingredient = req.ingredients[i].ingredient}
              IN  /\ Cardinality(same) = 1
                  /\ \A k \in same : now.ingredients[k].amount = req.ingredients[i].amount

C5_Witness ==
    /\ UpdateEnded /\ req.status = "ok"
    /\ Stored(req.before, req.id).tags \ {req.tags[i].v : i \in DOMAIN req.tags} # {}
    /\ Len(Stored(req.before, req.id).ingredients) = 2
    /\ Len(req.ingredients) = 1
    /\ \A k \in DOMAIN Stored(req.before, req.id).ingredients :
          Stored(req.before, req.id).ingredients[k].amount # req.ingredients[1].amount

\* The entries of a list that repeat the ingredient id of an earlier entry.
RepeatPositions(v) ==
    SelectSeq([i \in DOMAIN v |-> i],
              LAMBDA i : \E j \in 1..(i - 1) : v[j].ingredient = v[i].ingredient)
RepeatNames(v, names) ==
    [k \in DOMAIN RepeatPositions(v) |-> names[v[RepeatPositions(v)[k]].ingredient]]

\* C6: validate_ingredients fails if and only if some ingredient id occurs more
\* than once; the names in the error are, in payload order, those of the
\* entries that repeat an earlier entry's id; a list of unique ids is returned
\* unchanged.
C6_RepeatsAreReported ==
    validated.called =>
        /\ validated.ok <=> RepeatPositions(valueArg) = <<>>
        /\ ~validated.ok => validated.err = RepeatNames(valueArg, CatalogueName)
        /\ validated.ok => validated.value = valueArg

C6_Witness ==
    /\ validated.called /\ ~validated.ok
    /\ Len(valueArg) = 3
    /\ valueArg[1].ingredient # valueArg[2].ingredient
    /\ valueArg[3].ingredient = valueArg[1].ingredient
    /\ Len(validated.err) = 1

\* C7: a subscription add with user = follower fails in every state, whatever
\* rows the table holds, and the error is the self-subscription one, never
\* "already subscribed".
C7_SelfSubscriptionRefused ==
    \A w \in Workers :
        (subReq[w].method = "POST" /\ subReq[w].user = subReq[w].follower) =>
            /\ subReq[w].pc = "done"
            /\ subReq[w].status = "self_subscription"

C7_Witness ==
    \E w \in Workers :
        /\ subReq[w].method = "POST" /\ subReq[w].user = subReq[w].follower
        /\ subReq[w].status = "self_subscription"
        /\ \E f \in Followers : subscriptions[<<subReq[w].user, f>>] > 0
        /\ \E u \in Followers : subscriptions[<<u, subReq[w].user>>] > 0

\* One favourite request: an add is refused with ValidationError exactly when
\* the row of the pair exists, a remove exactly when it does not, and no pair
\* is stored more than once afterwards.
C8_Request ==
    LET pair == <<favResp'.user, favResp'.recipe>> IN
    /\ favResp'.method = "POST" =>
          (favResp'.status = "ValidationError" <=> favourites[pair] > 0)
    /\ favResp'.method = "DELETE" =>
          (favResp'.status = "ValidationError" <=> favourites[pair] = 0)
    /\ \A p \in FavPairs : favourites'[p] <= 1

\* C8, over every sequence of favourite requests: each request is answered as
\* C8_Request says (add refused iff the pair is stored, remove refused iff it
\* is not, no pair stored twice).
C8_FavouriteToggle == [][C8_Request]_vars

C8_Witness ==
    /\ favResp.method = "POST" /\ favResp.status = "ValidationError"
    /\ favourites[<<favResp.user, favResp.recipe>>] = 1

\* C9: in every state, also with adds racing between check and insert, the
\* Subscriptions table holds no row with user = follower and no pair twice.
C9_TableConstraints ==
    \A p \in SubPairs :
        /\ subscriptions[p] <= 1
        /\ p[1] = p[2] => subscriptions[p] = 0

\* Two adds of one pair both passed validate(); the insert of the second was
\* turned down by the table.
C9_Witness ==
    \E w \in Workers, x \in Workers :
        /\ w # x
        /\ subReq[w].pc = "done" /\ subReq[w].method = "POST"
        /\ subReq[w].status = "IntegrityError"
        /\ subReq[x].pc = "done" /\ subReq[x].method = "POST"
        /\ subReq[x].status = "created"
        /\ subReq[x].user = subReq[w].user /\ subReq[x].follower = subReq[w].follower
        /\ subscriptions[<<subReq[w].user, subReq[w].follower>>] = 1

\* recipes_limit as text: a number, or not.
IsNumeric(param) ==
    /\ param.present
    /\ \/ AllDigits(param.text)
       \/ param.text # <<>> /\ param.text[1] = "-" /\ AllDigits(Tail(param.text))
Min(a, b) == IF a < b THEN a ELSE b

\* C10: with a numeric recipes_limit N >= 0 the nested list holds the first
\* min(N, T) of the followed user's T recipes; with the limit missing or not
\* numeric it holds all T; recipes_count is T in every case.
C10_LimitCapsRecipes ==
    listResp.status # "none" =>
        LET T == Len(listReq.owned) IN
        /\ listResp.recipes_count = T
        /\ ~IsNumeric(listReq.param) => listResp.recipes = listReq.owned
        /\ (IsNumeric(listReq.param) /\ AllDigits(listReq.param.text)) =>
              listResp.recipes = SubSeq(listReq.owned, 1, Min(DecimalValue(listReq.param.text), T))

=============================================================================
